---- MODULE Spec2Model ----
(***************************************************************************)
(* A model of parthenon's MeshBlockData<T> (src/interface/                 *)
(* meshblock_data.cpp): the block-local variable container, its variable-  *)
(* pack caches and its boundary-exchange tasks.                            *)
(***************************************************************************)
EXTENDS Integers, Sequences, FiniteSets, TLC

(***************************************************************************)
(* Bounds of the model.                                                    *)
(***************************************************************************)
\* calls of Allocate after Initialize
MaxAllocs == 2
\* variable packs ever built by the three caches together
MaxPacks == 2
\* neighbor blocks of the block (bval->nneighbor)
NumNeighbors == 2

(***************************************************************************)
(* The resolved schema and variable identities.                            *)
(***************************************************************************)
Range(s) == {s[i] : i \in DOMAIN s}

\* the sparse id of a dense variable
InvalidSparseID == -2147483647 - 1

\* the label of the variable (base_name, sparse_id)
MakeVarLabel(base_name, sparse_id) ==
  IF sparse_id = InvalidSparseID THEN base_name
  ELSE base_name \o "_" \o ToString(sparse_id)

\* resolved_packages->AllFields() of the full problem, in VarID order
AllFields ==
  << [base_name |-> "A", sparse_id |-> InvalidSparseID,
      flags |-> {"FillGhost", "WithFluxes"}, where |-> "Cell"],
     [base_name |-> "B", sparse_id |-> 0, flags |-> {"FillGhost"}, where |-> "Cell"],
     [base_name |-> "B", sparse_id |-> 1, flags |-> {"FillGhost", "WithFluxes"},
      where |-> "Cell"],
     [base_name |-> "C", sparse_id |-> InvalidSparseID,
      flags |-> {"WithFluxes", "OneCopy"}, where |-> "Cell"] >>

\* the full problem with its fields declared in another order
ShuffledFields == << AllFields[4], AllFields[3], AllFields[1], AllFields[2] >>

\* a problem that declares no variable that is both WithFluxes and FillGhost
FewFields == << AllFields[2], AllFields[4] >>

\* a problem with one dense and one sparse ghost-filled variable
ExchangeFields == << AllFields[1], AllFields[2], AllFields[4] >>

\* the schemas a container is initialized with
Schemas == {AllFields, FewFields}

\* the schemas of the containers whose boundary exchange is followed
ExchangeSchemas == {ExchangeFields, FewFields}

\* the neighbors of the block, and those on this rank (snb.rank == Globals::my_rank)
Neighbors == 1 .. NumNeighbors
LocalNeighbors == {n \in Neighbors : n % 2 = 1}

FieldLabel(q) == MakeVarLabel(q.base_name, q.sparse_id)

Labels == {FieldLabel(AllFields[i]) : i \in DOMAIN AllFields}

\* the declarations by label
FieldTable ==
  [l \in Labels |-> CHOOSE q \in Range(AllFields) : FieldLabel(q) = l]

\* the declaration of the variable labelled l
FieldOf(l) == FieldTable[l]

IsSet(l, flag) == flag \in FieldOf(l).flags

IsSparse(l) == FieldOf(l).sparse_id # InvalidSparseID

VARIABLES
  sparse_enabled,     \* Globals::sparse_config.enabled
  resolved_packages,  \* the schema the container was initialized with
  varVector,          \* varVector_: the cell variables in insertion order
  varMap,             \* varMap_: the labels of the cell variables (a sorted map)
  faceVector,         \* faceVector_: the face variables in insertion order
  faceMap,            \* faceMap_: the labels of the face variables
  is_allocated,       \* CellVariable::is_allocated_, per label
  data,               \* CellVariable::data: the storage block it views, 0 = none
  nextData,           \* storage blocks handed out so far
  varPackMap,         \* varPackMap_: key -> [pack, alloc_status]
  coarseVarPackMap,   \* coarseVarPackMap_
  varFluxPackMap,     \* varFluxPackMap_: <<key, key>> -> [pack, alloc_status, flux_alloc_status]
  nextPack,           \* packs built so far
  lastLookup,         \* history: per cache and key, what the previous lookup saw and returned
  mpiStatus,          \* CellVariable::mpiStatus, per label
  var_cc,             \* vbvar->var_cc: the storage block the boundary variable views
  bd_flag,            \* vbvar: per label and neighbor, "waiting" or "arrived"
  recv_posted,        \* vbvar: the receives of this cycle are posted
  persistent,         \* vbvar: the persistent channels are set up
  flcor_flag,         \* vbvar: flux correction "waiting", "arrived" or "completed"
  local_neighbor_allocated, \* vbvar->local_neighbor_allocated[n], per label
  neighbor_alloc,     \* IsAllocated of the variables of the neighbor blocks on this rank
  started,            \* history: StartReceiving has been called
  polledOK,           \* history: the variables whose poll succeeded since StartReceiving
  dst,                \* a second container, filled by CopyFrom: its varVector_ and variables
  copied,             \* history: the arguments and the outcome of that CopyFrom
  ret                 \* the last operation and what it returned

regVars == <<sparse_enabled, resolved_packages, varVector, varMap, faceVector, faceMap>>
allocVars == <<is_allocated, data, nextData>>
cacheVars == <<varPackMap, coarseVarPackMap, varFluxPackMap, nextPack, lastLookup>>
bdryVars == <<mpiStatus, var_cc, bd_flag, recv_posted, persistent, flcor_flag,
             local_neighbor_allocated, neighbor_alloc, started, polledOK>>
copyVars == <<dst, copied>>
vars == <<regVars, allocVars, cacheVars, bdryVars, copyVars, ret>>

(***************************************************************************)
(* Small helpers over sequences and maps.                                  *)
(***************************************************************************)
EmptyMap == [k \in {} |-> 0]

\* the elements of the finite set of integers S in ascending order
RECURSIVE Ascending(_)
Ascending(S) ==
  IF S = {} THEN << >>
  ELSE LET m == CHOOSE x \in S : \A y \in S : x <= y
       IN << m >> \o Ascending(S \ {m})

(***************************************************************************)
(* Initialize and AddField: the container after Initialize(schema, block). *)
(***************************************************************************)
\* a rule that defers the allocation of every sparse variable
AllocatedOnAdd_DenseOnly(enabled, l) == ~IsSparse(l)

\* AddField's allocation rule for a cell variable
AllocatedOnAdd(enabled, l) == ~enabled \/ ~IsSparse(l)

\* the labels AddField has added for the fields of a schema, in order
AddedLabels(fields) == [i \in DOMAIN fields |-> FieldLabel(fields[i])]

\* the storage block AddField's Allocate gives the i-th field of a schema
RECURSIVE StorageOnAdd(_, _, _)
StorageOnAdd(enabled, fields, i) ==
  IF i = 0 THEN 0
  ELSE StorageOnAdd(enabled, fields, i - 1)
       + (IF fields[i].where = "Cell" /\ AllocatedOnAdd(enabled, FieldLabel(fields[i]))
          THEN 1 ELSE 0)

\* the registry and the allocation state Initialize leaves
Initialize(enabled, fields) ==
  /\ sparse_enabled = enabled
  /\ resolved_packages = fields
  /\ varVector = AddedLabels(fields)
  /\ varMap = Range(AddedLabels(fields))
  /\ faceVector = << >>
  /\ faceMap = {}
  /\ is_allocated = [l \in Labels |->
        l \in Range(AddedLabels(fields)) /\ AllocatedOnAdd(enabled, l)]
  /\ data = [l \in Labels |->
        IF l \in Range(AddedLabels(fields)) /\ AllocatedOnAdd(enabled, l)
        THEN StorageOnAdd(enabled, fields,
                          CHOOSE i \in DOMAIN fields : FieldLabel(fields[i]) = l)
        ELSE 0]
  /\ nextData = StorageOnAdd(enabled, fields, Len(fields))
  /\ varPackMap = EmptyMap
  /\ coarseVarPackMap = EmptyMap
  /\ varFluxPackMap = EmptyMap

\* a newly constructed second container, before any CopyFrom
EmptyContainer == [varVector |-> << >>, vars |-> EmptyMap, allocs |-> 0]

NotCopied == [done |-> FALSE]

NoCopy == dst = EmptyContainer /\ copied = NotCopied

\* the boundary state of newly constructed variables: mpiStatus has the value
\* the constructor leaves, no neighbor is recorded as allocated, the boundary
\* variable views the variable's storage, nothing is posted or arrived
NewBoundaryState(status0, nalloc) ==
  /\ mpiStatus = [l \in Labels |-> status0]
  /\ var_cc = data
  /\ bd_flag = [l \in Labels |-> [n \in Neighbors |-> "waiting"]]
  /\ recv_posted = [l \in Labels |-> FALSE]
  /\ persistent = [l \in Labels |-> FALSE]
  /\ flcor_flag = [l \in Labels |-> "waiting"]
  /\ local_neighbor_allocated = [l \in Labels |-> [n \in Neighbors |-> FALSE]]
  /\ neighbor_alloc = nalloc
  /\ started = FALSE
  /\ polledOK = {}

\* the allocation states a neighbor block on this rank can be in: it holds the
\* same variables, its dense variables allocated
NeighborAllocStates ==
  {f \in [LocalNeighbors -> [Labels -> BOOLEAN]] :
     \A n \in LocalNeighbors, l \in Labels :
        /\ l \notin varMap => ~f[n][l]
        /\ (l \in varMap /\ AllocatedOnAdd(sparse_enabled, l)) => f[n][l]}

(***************************************************************************)
(* Sparse allocation: CellVariable::Allocate and Deallocate.               *)
(***************************************************************************)
Allocate(l) ==
  /\ l \in varMap
  /\ sparse_enabled /\ IsSparse(l)
  /\ ~is_allocated[l]
  /\ nextData < StorageOnAdd(sparse_enabled, resolved_packages, Len(resolved_packages)) + MaxAllocs
  /\ is_allocated' = [is_allocated EXCEPT ![l] = TRUE]
  /\ data' = [data EXCEPT ![l] = nextData + 1]
  /\ nextData' = nextData + 1
  /\ ret' = [op |-> "Allocate", var |-> l]
  /\ UNCHANGED <<regVars, copyVars, cacheVars, bdryVars>>

Deallocate(l) ==
  /\ l \in varMap
  /\ sparse_enabled /\ IsSparse(l)
  /\ is_allocated[l]
  /\ is_allocated' = [is_allocated EXCEPT ![l] = FALSE]
  /\ data' = [data EXCEPT ![l] = 0]
  /\ ret' = [op |-> "Deallocate", var |-> l]
  /\ UNCHANGED <<regVars, copyVars, cacheVars, bdryVars, nextData>>

(***************************************************************************)
(* Selection: VarLabelList and GetVariablesByName.                         *)
(***************************************************************************)
EmptyList == [labels |-> << >>, alloc_status |-> << >>]

\* VarLabelList::Add(v, sparse_ids_set)
ListAdd(var_list, l, sparse_ids_set) ==
  IF \/ (IsSparse(l) /\ sparse_ids_set # {} /\ FieldOf(l).sparse_id \notin sparse_ids_set)
     \/ l \in Range(var_list.labels)
  THEN var_list
  ELSE [labels |-> Append(var_list.labels, l),
        alloc_status |-> Append(var_list.alloc_status, is_allocated[l])]

\* resolved_packages_->SparseBaseNamePresent(name)
SparseBaseNamePresent(name) ==
  \E i \in DOMAIN resolved_packages :
     /\ resolved_packages[i].base_name = name
     /\ resolved_packages[i].sparse_id # InvalidSparseID

\* resolved_packages_->GetSparsePool(name).pool(): the sparse ids, in iteration order
SparsePool(name) ==
  Ascending({resolved_packages[i].sparse_id : i \in
               {j \in DOMAIN resolved_packages :
                  /\ resolved_packages[j].base_name = name
                  /\ resolved_packages[j].sparse_id # InvalidSparseID}})

\* a loop that stops after the first sparse id of the pool
AddPool_FirstOnly(var_list, name, ids, sparse_ids_set) ==
  IF ids = << >> THEN var_list
  ELSE ListAdd(var_list, MakeVarLabel(name, Head(ids)), sparse_ids_set)

\* the inner loop of GetVariablesByName over a sparse pool
RECURSIVE AddPool(_, _, _, _)
AddPool(var_list, name, ids, sparse_ids_set) ==
  IF ids = << >> THEN var_list
  ELSE AddPool(ListAdd(var_list, MakeVarLabel(name, Head(ids)), sparse_ids_set),
               name, Tail(ids), sparse_ids_set)

\* the body of the loop of GetVariablesByName for one requested name
AddName(var_list, name, sparse_ids_set) ==
  IF name \in varMap
  THEN ListAdd(var_list, name, sparse_ids_set)
  ELSE IF SparseBaseNamePresent(name)
  THEN AddPool(var_list, name, SparsePool(name), sparse_ids_set)
  ELSE var_list

\* a loop that takes the requested names from the last to the first
RECURSIVE AddNames_Reversed(_, _, _)
AddNames_Reversed(var_list, names, sparse_ids_set) ==
  IF names = << >> THEN var_list
  ELSE AddName(AddNames_Reversed(var_list, Tail(names), sparse_ids_set),
               Head(names), sparse_ids_set)

\* the loop of GetVariablesByName over the requested names
RECURSIVE AddNames(_, _, _)
AddNames(var_list, names, sparse_ids_set) ==
  IF names = << >> THEN var_list
  ELSE AddNames(AddName(var_list, Head(names), sparse_ids_set),
                Tail(names), sparse_ids_set)

GetVariablesByName(names, sparse_ids) == AddNames(EmptyList, names, Range(sparse_ids))

(***************************************************************************)
(* Selection by flags: GetVariablesByFlag.                                 *)
(***************************************************************************)
\* the base names in the order of std::less<std::string>
NameOrder == << "A", "B", "C" >>

NameRank(name) == CHOOSE i \in DOMAIN NameOrder : NameOrder[i] = name

\* a < b as std::map<std::string, ...> orders the labels: by base name, a dense
\* label before the labels of the same base name with a sparse id, then by id
LabelLess(a, b) ==
  LET ra == NameRank(FieldOf(a).base_name)
      rb == NameRank(FieldOf(b).base_name)
  IN \/ ra < rb
     \/ ra = rb /\ FieldOf(a).sparse_id < FieldOf(b).sparse_id

\* the labels of the finite set S in the iteration order of varMap_
RECURSIVE SortedLabels(_)
SortedLabels(S) ==
  IF S = {} THEN << >>
  ELSE LET m == CHOOSE x \in S : \A y \in S \ {x} : LabelLess(x, y)
       IN << m >> \o SortedLabels(S \ {m})

\* metadata().AllFlagsSet(flags) and metadata().AnyFlagsSet(flags)
AllFlagsSet(l, flags) == Range(flags) \subseteq FieldOf(l).flags
AnyFlagsSet(l, flags) == Range(flags) \cap FieldOf(l).flags # {}

\* a test that takes any of the flags for all of them
FlagsMatch_Any(l, flags, match_all) == flags = << >> \/ AnyFlagsSet(l, flags)

\* the test of GetVariablesByFlag on a variable
FlagsMatch(l, flags, match_all) ==
  \/ flags = << >>
  \/ match_all /\ AllFlagsSet(l, flags)
  \/ ~match_all /\ AnyFlagsSet(l, flags)

\* the loop of GetVariablesByFlag over the variables `order` lists
RECURSIVE AddFlagged(_, _, _, _, _)
AddFlagged(var_list, order, flags, match_all, sparse_ids_set) ==
  IF order = << >> THEN var_list
  ELSE LET l == Head(order)
       IN AddFlagged(IF FlagsMatch(l, flags, match_all)
                     THEN ListAdd(var_list, l, sparse_ids_set) ELSE var_list,
                     Tail(order), flags, match_all, sparse_ids_set)

\* an iteration over varVector_, in insertion order
FlagIteration_Vector == varVector

\* the iteration of GetVariablesByFlag: over varMap_, in the order of the labels
FlagIteration == SortedLabels(varMap)

GetVariablesByFlag(flags, match_all, sparse_ids) ==
  AddFlagged(EmptyList, FlagIteration, flags, match_all, Range(sparse_ids))

(***************************************************************************)
(* The pack caches: PackListedVariables and PackListedVariablesAndFluxes.  *)
(***************************************************************************)
\* the storage blocks the listed variables view, in list order
StorageOf(labels) == [i \in DOMAIN labels |-> data[labels[i]]]

\* MakePack(var_list, coarse): a new pack instance over the variables' storage
MakePack(var_list, coarse) ==
  [id |-> nextPack + 1, coarse |-> coarse, layout |-> StorageOf(var_list.labels)]

\* MakeFluxPack(var_list, flux_list)
MakeFluxPack(var_list, flux_list) ==
  [id |-> nextPack + 1, layout |-> StorageOf(var_list.labels),
   flux_layout |-> StorageOf(flux_list.labels)]

\* a comparison that finds every cached pack outdated
AllocStatusDiffers_Always(live, stored) == TRUE

\* a comparison that never finds a cached pack outdated
AllocStatusDiffers_Never(live, stored) == FALSE

\* the comparison of the live with the stored allocation status
AllocStatusDiffers(live, stored) == live # stored

\* a comparison that forgets the fluxes' allocation status
FluxAllocStatusDiffers_VarsOnly(var_alloc, flux_alloc, item) ==
  var_alloc # item.alloc_status

\* the comparison of both allocation statuses of a variables+fluxes lookup
FluxAllocStatusDiffers(var_alloc, flux_alloc, item) ==
  \/ var_alloc # item.alloc_status
  \/ flux_alloc # item.flux_alloc_status

\* an erase that leaves the outdated entry in the map
MapErase_Kept(packmap, key) == packmap

\* packmap.erase(itr)
MapErase(packmap, key) == [k \in DOMAIN packmap \ {key} |-> packmap[k]]

\* packmap.insert({key, new_item}): keeps the entry of a key that is present
MapInsert(packmap, key, new_item) ==
  IF key \in DOMAIN packmap THEN packmap
  ELSE [k \in DOMAIN packmap \cup {key} |->
          IF k = key THEN new_item ELSE packmap[k]]

NoLookup == [seen |-> FALSE, alloc |-> << >>, pack |-> 0]

\* what the previous lookup of `key` in cache `which` saw and returned
PrevLookup(which, key) ==
  IF <<which, key>> \in DOMAIN lastLookup THEN lastLookup[<<which, key>>] ELSE NoLookup

Remember(which, key, alloc, id) ==
  [k \in DOMAIN lastLookup \cup {<<which, key>>} |->
     IF k = <<which, key>> THEN [seen |-> TRUE, alloc |-> alloc, pack |-> id]
     ELSE lastLookup[k]]

\* a lookup that uses the fine cache for every pack
WhichCache_FineOnly(coarse) == "fine"

\* coarse ? coarseVarPackMap_ : varPackMap_
WhichCache(coarse) == IF coarse THEN "coarse" ELSE "fine"

\* a key that holds the labels in sorted order
PackKey_Sorted(var_list) == SortedLabels(Range(var_list.labels))

\* the key of a lookup: var_list.labels()
PackKey(var_list) == var_list.labels

PackListedVariables(var_list, coarse) ==
  LET key == PackKey(var_list)
      which == WhichCache(coarse)
      packmap == IF which = "coarse" THEN coarseVarPackMap ELSE varPackMap
      found == key \in DOMAIN packmap
      outdated == found /\ AllocStatusDiffers(var_list.alloc_status,
                                              packmap[key].alloc_status)
      make_new_pack == ~found \/ outdated
      erased == IF outdated THEN MapErase(packmap, key) ELSE packmap
      new_item == [alloc_status |-> var_list.alloc_status,
                   pack |-> MakePack(var_list, coarse)]
      after == IF make_new_pack THEN MapInsert(erased, key, new_item) ELSE packmap
  IN /\ make_new_pack => nextPack < MaxPacks
     /\ IF which = "coarse"
        THEN coarseVarPackMap' = after /\ UNCHANGED varPackMap
        ELSE varPackMap' = after /\ UNCHANGED coarseVarPackMap
     /\ nextPack' = IF make_new_pack THEN nextPack + 1 ELSE nextPack
     /\ lastLookup' = Remember(which, key, var_list.alloc_status, after[key].pack.id)
     /\ ret' = [op |-> "PackListedVariables", coarse |-> coarse, key |-> key,
                pack |-> after[key].pack, built |-> make_new_pack,
                list |-> var_list]
     /\ UNCHANGED <<regVars, copyVars, allocVars, bdryVars, varFluxPackMap>>

PackListedVariablesAndFluxes(var_list, flux_list) ==
  LET keys == <<var_list.labels, flux_list.labels>>
      found == keys \in DOMAIN varFluxPackMap
      outdated == found /\ FluxAllocStatusDiffers(var_list.alloc_status,
                                                  flux_list.alloc_status,
                                                  varFluxPackMap[keys])
      make_new_pack == ~found \/ outdated
      erased == IF outdated THEN MapErase(varFluxPackMap, keys) ELSE varFluxPackMap
      new_item == [alloc_status |-> var_list.alloc_status,
                   flux_alloc_status |-> flux_list.alloc_status,
                   pack |-> MakeFluxPack(var_list, flux_list)]
      after == IF make_new_pack THEN MapInsert(erased, keys, new_item)
               ELSE varFluxPackMap
      alloc == <<var_list.alloc_status, flux_list.alloc_status>>
  IN /\ make_new_pack => nextPack < MaxPacks
     /\ varFluxPackMap' = after
     /\ nextPack' = IF make_new_pack THEN nextPack + 1 ELSE nextPack
     /\ lastLookup' = Remember("flux", keys, alloc, after[keys].pack.id)
     /\ ret' = [op |-> "PackListedVariablesAndFluxes", key |-> keys,
                pack |-> after[keys].pack, built |-> make_new_pack]
     /\ UNCHANGED <<regVars, copyVars, allocVars, bdryVars, varPackMap, coarseVarPackMap>>

\* the name lists and sparse-id filters the callers ask packs for
NameLists == {<<"A", "B">>}
SparseIdFilters == {<< >>, <<0>>}
\* the (variable names, flux names) pairs the callers ask flux packs for
FluxNameLists == {<< <<"B_0">>, <<"A">> >>, << <<"A">>, <<"B_0">> >>}

\* PackVariablesImpl(names, sparse_ids, coarse)
PackVariablesByName(names, sparse_ids, coarse) ==
  PackListedVariables(GetVariablesByName(names, sparse_ids), coarse)

\* PackVariablesAndFluxesImpl(var_names, flx_names, sparse_ids)
PackVariablesAndFluxesByName(var_names, flx_names, sparse_ids) ==
  PackListedVariablesAndFluxes(GetVariablesByName(var_names, sparse_ids),
                               GetVariablesByName(flx_names, sparse_ids))

(***************************************************************************)
(* The pack-cache specification: lookups interleaved with sparse           *)
(* allocation and deallocation.                                            *)
(***************************************************************************)
Init ==
  /\ \E enabled \in BOOLEAN, fields \in Schemas : Initialize(enabled, fields)
  /\ NewBoundaryState(FALSE, [n \in LocalNeighbors |-> is_allocated])
  /\ nextPack = 0
  /\ lastLookup = EmptyMap
  /\ NoCopy
  /\ ret = [op |-> "Initialize"]

Next ==
  \/ \E l \in Labels : Allocate(l)
  \/ \E l \in Labels : Deallocate(l)
  \/ \E names \in NameLists, ids \in SparseIdFilters, coarse \in BOOLEAN :
       PackVariablesByName(names, ids, coarse)
  \/ \E pair \in FluxNameLists :
       PackVariablesAndFluxesByName(pair[1], pair[2], << >>)

Spec == Init /\ [][Next]_vars

(***************************************************************************)
(* The selection specifications: queries by name and by flags, and the     *)
(* packs built from them, interleaved with sparse allocation.              *)
(***************************************************************************)
\* the name lists the callers select by
SelectNames == {<<"A", "B_0">>, <<"B_0", "A">>, <<"B">>, <<"C", "B">>, <<"A", "X">>}

\* the flag lists the callers select by
FlagLists == {<< >>, <<"FillGhost">>, <<"FillGhost", "WithFluxes">>, <<"OneCopy">>}

\* the flag lists the callers retrieve packs by
PackFlagLists == {<<"FillGhost">>, <<"FillGhost", "WithFluxes">>}

\* a call of GetVariablesByName: it has no path that fails
SelectByName(names, sparse_ids) ==
  /\ ret' = [op |-> "GetVariablesByName", names |-> names, sparse_ids |-> sparse_ids,
             list |-> GetVariablesByName(names, sparse_ids), failed |-> FALSE]
  /\ UNCHANGED <<regVars, copyVars, allocVars, cacheVars, bdryVars>>

\* a call of GetVariablesByFlag
SelectByFlag(flags, match_all, sparse_ids) ==
  /\ ret' = [op |-> "GetVariablesByFlag", flags |-> flags, match_all |-> match_all,
             sparse_ids |-> sparse_ids,
             list |-> GetVariablesByFlag(flags, match_all, sparse_ids)]
  /\ UNCHANGED <<regVars, copyVars, allocVars, cacheVars, bdryVars>>

\* PackVariablesImpl(flags, sparse_ids, coarse)
PackVariablesByFlag(flags, sparse_ids, coarse) ==
  PackListedVariables(GetVariablesByFlag(flags, TRUE, sparse_ids), coarse)

InitSelect ==
  /\ \E enabled \in BOOLEAN, fields \in Schemas \cup {ShuffledFields} :
        Initialize(enabled, fields)
  /\ NewBoundaryState(FALSE, [n \in LocalNeighbors |-> is_allocated])
  /\ nextPack = 0
  /\ lastLookup = EmptyMap
  /\ NoCopy
  /\ ret = [op |-> "Initialize"]

NextSelect ==
  \/ \E l \in Labels : Allocate(l)
  \/ \E l \in Labels : Deallocate(l)
  \/ \E names \in SelectNames, ids \in SparseIdFilters : SelectByName(names, ids)
  \/ PackVariablesByName(<<"A", "B_0">>, << >>, FALSE)

SpecSelect == InitSelect /\ [][NextSelect]_vars

NextFlags ==
  \/ \E l \in Labels : Allocate(l)
  \/ \E l \in Labels : Deallocate(l)
  \/ \E flags \in FlagLists, match_all \in BOOLEAN, ids \in SparseIdFilters :
       SelectByFlag(flags, match_all, ids)
  \/ \E flags \in PackFlagLists : PackVariablesByFlag(flags, << >>, FALSE)

SpecFlags == InitSelect /\ [][NextFlags]_vars

\* the name lists whose packs share or do not share a cache entry
KeyNames == {<<"A", "B_0">>, <<"B_0", "A">>, <<"B">>, <<"B_0", "B_1">>}

NextKeys ==
  \/ \E l \in Labels : Allocate(l)
  \/ \E l \in Labels : Deallocate(l)
  \/ \E names \in KeyNames : PackVariablesByName(names, << >>, FALSE)

SpecKeys == InitSelect /\ [][NextKeys]_vars

(***************************************************************************)
(* CopyFrom: filling a second container from this one. A variable of the   *)
(* second container is this container's object (shared) or a duplicate     *)
(* with a state and storage of its own; the storage of duplicates is       *)
(* numbered below zero.                                                    *)
(***************************************************************************)
\* this container's variable object, as the second container holds it
SharedVar == [shared |-> TRUE, is_allocated |-> FALSE, data |-> 0]

\* the allocation state and the storage seen through a variable v labelled l
VarIsAllocated(v, l) == IF v.shared THEN is_allocated[l] ELSE v.is_allocated
VarData(v, l) == IF v.shared THEN data[l] ELSE v.data

\* a CopyFrom in progress: the second container so far and the exception thrown
NoException == "none"
StartCopy == [varVector |-> << >>, vars |-> EmptyMap, allocs |-> 0,
              failed |-> NoException]

\* Add(var): the variable goes at the back of varVector_ and under its label
\* into varMap_
Add(acc, l, v) ==
  [acc EXCEPT !.varVector = Append(@, l),
              !.vars = [k \in DOMAIN acc.vars \cup {l} |->
                          IF k = l THEN v ELSE acc.vars[k]]]

\* var->AllocateCopy(pmy_block) added: a duplicate with storage of its own
AddAllocateCopy(acc, l, v) ==
  IF VarIsAllocated(v, l)
  THEN [Add(acc, l, [shared |-> FALSE, is_allocated |-> TRUE,
                     data |-> -(acc.allocs + 1)])
          EXCEPT !.allocs = @ + 1]
  ELSE Add(acc, l, [shared |-> FALSE, is_allocated |-> FALSE, data |-> 0])

\* a test that shares the variables of a shallow copy only
Shares_ShallowOnly(shallow_copy, l) == shallow_copy

\* shallow_copy || var->IsSet(Metadata::OneCopy)
Shares(shallow_copy, l) == shallow_copy \/ IsSet(l, "OneCopy")

\* the lambda add_var of CopyFrom, applied to the variable v labelled l
add_var(acc, l, v, shallow_copy, flags, sparse_ids) ==
  IF flags # << >> /\ ~AnyFlagsSet(l, flags) THEN acc
  ELSE IF /\ sparse_ids # << >> /\ IsSparse(l)
          /\ FieldOf(l).sparse_id \notin Range(sparse_ids) THEN acc
  ELSE IF Shares(shallow_copy, l) THEN Add(acc, l, v)
  ELSE AddAllocateCopy(acc, l, v)

\* the loop of CopyFrom over the source's varVector_, for an empty name list
RECURSIVE CopyAll(_, _, _, _, _)
CopyAll(acc, order, shallow_copy, flags, sparse_ids) ==
  IF order = << >> THEN acc
  ELSE CopyAll(add_var(acc, Head(order), SharedVar, shallow_copy, flags, sparse_ids),
               Tail(order), shallow_copy, flags, sparse_ids)

\* the loop of CopyFrom over the sparse pool of a name that is no variable of
\* the source: varMap_.at() looks the label up in the container being filled
RECURSIVE CopyPool(_, _, _, _, _, _)
CopyPool(acc, name, ids, shallow_copy, flags, sparse_ids) ==
  IF ids = << >> THEN acc
  ELSE LET l == MakeVarLabel(name, Head(ids))
       IN IF l \notin DOMAIN acc.vars
          THEN [acc EXCEPT !.failed = "out_of_range"]
          ELSE CopyPool(add_var(acc, l, acc.vars[l], shallow_copy, flags, sparse_ids),
                        name, Tail(ids), shallow_copy, flags, sparse_ids)

\* the loop of CopyFrom over the requested names; an exception ends it
RECURSIVE CopyNamed(_, _, _, _, _)
CopyNamed(acc, names, shallow_copy, flags, sparse_ids) ==
  IF names = << >> \/ acc.failed # NoException THEN acc
  ELSE LET name == Head(names)
           next == IF name \in varMap
                   THEN add_var(acc, name, SharedVar, shallow_copy, flags, sparse_ids)
                   ELSE IF SparsePool(name) # << >>
                   THEN CopyPool(acc, name, SparsePool(name), shallow_copy, flags,
                                 sparse_ids)
                   ELSE [acc EXCEPT !.failed = "not found"]
       IN CopyNamed(next, Tail(names), shallow_copy, flags, sparse_ids)

\* CopyFrom(src, shallow_copy, names, flags, sparse_ids) on a newly constructed
\* container, src being this container
CopyFrom(shallow_copy, names, flags, sparse_ids) ==
  LET res == IF names = << >>
             THEN CopyAll(StartCopy, varVector, shallow_copy, flags, sparse_ids)
             ELSE CopyNamed(StartCopy, names, shallow_copy, flags, sparse_ids)
  IN /\ ~copied.done
     /\ dst' = [varVector |-> res.varVector, vars |-> res.vars, allocs |-> res.allocs]
     /\ copied' = [done |-> TRUE, shallow_copy |-> shallow_copy, names |-> names,
                   flags |-> flags, sparse_ids |-> sparse_ids, failed |-> res.failed]
     /\ ret' = [op |-> "CopyFrom", failed |-> res.failed]
     /\ UNCHANGED <<regVars, allocVars, cacheVars, bdryVars>>

\* Allocate of a sparse variable through the second container
DstAllocate(l) ==
  /\ l \in DOMAIN dst.vars
  /\ sparse_enabled /\ IsSparse(l)
  /\ ~VarIsAllocated(dst.vars[l], l)
  /\ IF dst.vars[l].shared
     THEN /\ nextData < StorageOnAdd(sparse_enabled, resolved_packages,
                                     Len(resolved_packages)) + MaxAllocs
          /\ is_allocated' = [is_allocated EXCEPT ![l] = TRUE]
          /\ data' = [data EXCEPT ![l] = nextData + 1]
          /\ nextData' = nextData + 1
          /\ UNCHANGED dst
     ELSE /\ dst.allocs < Len(dst.varVector) + MaxAllocs
          /\ dst' = [dst EXCEPT !.vars[l] = [shared |-> FALSE, is_allocated |-> TRUE,
                                             data |-> -(dst.allocs + 1)],
                                !.allocs = @ + 1]
          /\ UNCHANGED allocVars
  /\ ret' = [op |-> "DstAllocate", var |-> l]
  /\ UNCHANGED <<regVars, cacheVars, bdryVars, copied>>

\* Deallocate of a sparse variable through the second container
DstDeallocate(l) ==
  /\ l \in DOMAIN dst.vars
  /\ sparse_enabled /\ IsSparse(l)
  /\ VarIsAllocated(dst.vars[l], l)
  /\ IF dst.vars[l].shared
     THEN /\ is_allocated' = [is_allocated EXCEPT ![l] = FALSE]
          /\ data' = [data EXCEPT ![l] = 0]
          /\ UNCHANGED <<dst, nextData>>
     ELSE /\ dst' = [dst EXCEPT !.vars[l] = [shared |-> FALSE, is_allocated |-> FALSE,
                                             data |-> 0]]
          /\ UNCHANGED allocVars
  /\ ret' = [op |-> "DstDeallocate", var |-> l]
  /\ UNCHANGED <<regVars, cacheVars, bdryVars, copied>>

\* the arguments the callers copy with
CopyNames == {<< >>, <<"C", "A">>, <<"B">>, <<"B_0", "X">>}
CopyFlagLists == {<< >>, <<"FillGhost">>}

NextCopy ==
  \/ \E shallow_copy \in BOOLEAN, names \in CopyNames, flags \in CopyFlagLists,
        ids \in SparseIdFilters : CopyFrom(shallow_copy, names, flags, ids)
  \/ \E l \in Labels : Allocate(l)
  \/ \E l \in Labels : Deallocate(l)
  \/ \E l \in Labels : DstAllocate(l)
  \/ \E l \in Labels : DstDeallocate(l)

SpecCopy == Init /\ [][NextCopy]_vars

(***************************************************************************)
(* The boundary exchange tasks.                                            *)
(***************************************************************************)
TaskStatus(done) == IF done THEN "complete" ELSE "incomplete"

\* the phases of BoundaryCommSubset
Phases == {"mesh_init", "all"}

\* a test that takes the variables with fluxes for the ghost-filled ones
IsGhostFilled_WithFluxes(l) == IsSet(l, "WithFluxes")

\* v->IsSet(Metadata::FillGhost)
IsGhostFilled(l) == IsSet(l, "FillGhost")

\* a test that forgets the FillGhost flag
HasFluxesAndGhost_FluxesOnly(l) == IsSet(l, "WithFluxes")

\* v->IsSet(Metadata::WithFluxes) && v->IsSet(Metadata::FillGhost)
HasFluxesAndGhost(l) == IsSet(l, "WithFluxes") /\ IsSet(l, "FillGhost")

\* the variables of the container a loop over varVector_ selects
GhostFilledVars == {l \in Range(varVector) : IsGhostFilled(l)}

FluxCorrectedVars == {l \in Range(varVector) : HasFluxesAndGhost(l)}

\* a reset that leaves the boundary variables on the storage they viewed
ResetBoundary_Stale(S) == var_cc

\* v->resetBoundary() for the variables in S: vbvar->var_cc = data
ResetBoundary(S) == [l \in Labels |-> IF l \in S THEN data[l] ELSE var_cc[l]]

\* a SetLocalNeighborAllocated that records the block's own allocation state
SetLocalNeighborAllocated_Own ==
  IF ~sparse_enabled THEN local_neighbor_allocated
  ELSE [l \in Labels |-> [n \in Neighbors |->
          IF n \in LocalNeighbors /\ l \in GhostFilledVars
          THEN is_allocated[l]
          ELSE local_neighbor_allocated[l][n]]]

\* the flags SetLocalNeighborAllocated leaves (it is compiled in with sparse support)
SetLocalNeighborAllocated ==
  IF ~sparse_enabled THEN local_neighbor_allocated
  ELSE [l \in Labels |-> [n \in Neighbors |->
          IF n \in LocalNeighbors /\ l \in GhostFilledVars
          THEN neighbor_alloc[n][l]
          ELSE local_neighbor_allocated[l][n]]]

Call(name, l) == [call |-> name, var |-> l]

\* a StartReceiving that synchronizes the neighbor allocation after its loop
RECURSIVE StartReceivingCalls_SyncLast(_, _)
StartReceivingCalls_SyncLast(i, log) ==
  IF i > Len(varVector) THEN Append(log, Call("SetLocalNeighborAllocated", ""))
  ELSE LET l == varVector[i]
           body == IF IsGhostFilled(l)
                   THEN << Call("resetBoundary", l), Call("StartReceiving", l),
                           Call("mpiStatus = false", l) >>
                   ELSE << >>
       IN StartReceivingCalls_SyncLast(i + 1, IF i = 1 THEN body ELSE log \o body)

\* the calls and assignments of StartReceiving from variable i on, in order;
\* `log` holds those made so far
RECURSIVE StartReceivingCalls(_, _)
StartReceivingCalls(i, log) ==
  IF i > Len(varVector) THEN log
  ELSE LET l == varVector[i]
       IN StartReceivingCalls(i + 1,
            IF IsGhostFilled(l)
            THEN log \o << Call("resetBoundary", l), Call("StartReceiving", l),
                           Call("mpiStatus = false", l) >>
            ELSE log)

\* a StartReceiving that leaves the completion flag as it is
MarkNotComplete_Kept(status, S) == status

\* v->mpiStatus = false for the variables in S
MarkNotComplete(status, S) == [l \in Labels |-> IF l \in S THEN FALSE ELSE status[l]]

StartReceiving(phase) ==
  /\ local_neighbor_allocated' = SetLocalNeighborAllocated
  /\ var_cc' = ResetBoundary(GhostFilledVars)
  /\ recv_posted' = [l \in Labels |-> IF l \in GhostFilledVars THEN TRUE
                                      ELSE recv_posted[l]]
  /\ mpiStatus' = MarkNotComplete(mpiStatus, GhostFilledVars)
  /\ started' = TRUE
  /\ polledOK' = {}
  /\ phase \in Phases
  /\ ret' = [op |-> "StartReceiving", status |-> TaskStatus(TRUE),
             log |-> StartReceivingCalls(1, << Call("SetLocalNeighborAllocated", "") >>),
             pending |-> started /\ \E l \in GhostFilledVars : ~mpiStatus[l]]
  /\ UNCHANGED <<regVars, copyVars, allocVars, cacheVars, bd_flag, persistent, flcor_flag,
                 neighbor_alloc>>

\* vbvar->ReceiveBoundaryBuffers(is_allocated): the buffers of all neighbors are in
Poll(l) == \A n \in Neighbors : bd_flag[l][n] = "arrived"

\* a poll of every ghost-filled variable, complete or not
ToPoll_Again == {l \in Range(varVector) : IsGhostFilled(l)}

\* the variables a ReceiveBoundaryBuffers call polls
ToPoll == {l \in Range(varVector) : ~mpiStatus[l] /\ IsGhostFilled(l)}

\* an accumulation that keeps the last poll's result only
AndStatus_Last(r, status) == status

\* ret = (ret & v->mpiStatus)
AndStatus(r, status) == r /\ status

\* a loop that takes the completion flag of every variable into ret
RECURSIVE ReceiveLoop_AllVars(_, _)
ReceiveLoop_AllVars(i, r) ==
  IF i > Len(varVector) THEN r
  ELSE LET l == varVector[i]
       IN ReceiveLoop_AllVars(i + 1,
            IF l \in ToPoll THEN AndStatus(r, Poll(l)) ELSE AndStatus(r, mpiStatus[l]))

\* the loop of ReceiveBoundaryBuffers from variable i on; r is ret so far
RECURSIVE ReceiveLoop(_, _)
ReceiveLoop(i, r) ==
  IF i > Len(varVector) THEN r
  ELSE LET l == varVector[i]
       IN ReceiveLoop(i + 1, IF l \in ToPoll THEN AndStatus(r, Poll(l)) ELSE r)

\* a poll that takes every variable for allocated
PollArg_Always(l) == TRUE

\* the argument of the poll: v->IsAllocated()
PollArg(l) == is_allocated[l]

\* the variables whose successful poll copies buffer data into their storage:
\* the poll of a variable passed as unallocated is a data-free receive
ReceivedData == {l \in ToPoll : Poll(l) /\ PollArg(l)}

ReceiveBoundaryBuffers ==
  /\ var_cc' = ResetBoundary(ToPoll)
  /\ mpiStatus' = [l \in Labels |-> IF l \in ToPoll THEN Poll(l) ELSE mpiStatus[l]]
  /\ polledOK' = polledOK \cup {l \in ToPoll : Poll(l)}
  /\ ret' = [op |-> "ReceiveBoundaryBuffers", status |-> TaskStatus(ReceiveLoop(1, TRUE)),
             polled |-> ToPoll, failed |-> {l \in ToPoll : ~Poll(l)},
             alloc |-> [l \in ToPoll |-> PollArg(l)], received_data |-> ReceivedData]
  /\ UNCHANGED <<regVars, copyVars, allocVars, cacheVars, bd_flag, recv_posted, persistent,
                 flcor_flag, local_neighbor_allocated, neighbor_alloc, started>>

SendFluxCorrection ==
  /\ ret' = [op |-> "SendFluxCorrection", status |-> TaskStatus(TRUE),
             sent |-> FluxCorrectedVars]
  /\ UNCHANGED <<regVars, copyVars, allocVars, cacheVars, bdryVars>>

\* vbvar->ReceiveFluxCorrection(is_allocated): the correction is in
PollFlux(l) == flcor_flag[l] # "waiting"

\* success == total
FluxStatus(success, total) == success = total

ReceiveFluxCorrection ==
  LET success == Cardinality({l \in FluxCorrectedVars : PollFlux(l)})
      total == Cardinality(FluxCorrectedVars)
  IN /\ flcor_flag' = [l \in Labels |->
          IF l \in FluxCorrectedVars /\ flcor_flag[l] = "arrived" THEN "completed"
          ELSE flcor_flag[l]]
     /\ ret' = [op |-> "ReceiveFluxCorrection",
                status |-> TaskStatus(FluxStatus(success, total))]
     /\ UNCHANGED <<regVars, copyVars, allocVars, cacheVars, mpiStatus, var_cc, bd_flag,
                    recv_posted, persistent, local_neighbor_allocated, neighbor_alloc,
                    started, polledOK>>

SetupPersistentMPI ==
  /\ var_cc' = ResetBoundary(GhostFilledVars)
  /\ persistent' = [l \in Labels |-> IF l \in GhostFilledVars THEN TRUE
                                     ELSE persistent[l]]
  /\ ret' = [op |-> "SetupPersistentMPI"]
  /\ UNCHANGED <<regVars, copyVars, allocVars, cacheVars, mpiStatus, bd_flag, recv_posted,
                 flcor_flag, local_neighbor_allocated, neighbor_alloc, started,
                 polledOK>>

ResetBoundaryCellVariables ==
  /\ var_cc' = ResetBoundary(GhostFilledVars)
  /\ ret' = [op |-> "ResetBoundaryCellVariables",
             rebound |-> {l \in Labels : var_cc[l] # data[l]}]
  /\ UNCHANGED <<regVars, copyVars, allocVars, cacheVars, mpiStatus, bd_flag, recv_posted,
                 persistent, flcor_flag, local_neighbor_allocated, neighbor_alloc,
                 started, polledOK>>

\* a ClearBoundary that releases the channels of the completed variables only
ClearedVars_CompleteOnly == {l \in GhostFilledVars : mpiStatus[l]}

\* the variables whose vbvar->ClearBoundary(phase) ClearBoundary calls
ClearedVars == GhostFilledVars

\* vbvar->ClearBoundary(phase) for every ghost-filled variable: the flags of the
\* cycle go back to waiting and the posted receives are released, without a wait
ClearBoundary(phase) ==
  /\ bd_flag' = [l \in Labels |-> IF l \in ClearedVars
                                  THEN [n \in Neighbors |-> "waiting"]
                                  ELSE bd_flag[l]]
  /\ recv_posted' = [l \in Labels |-> IF l \in ClearedVars THEN FALSE
                                      ELSE recv_posted[l]]
  /\ flcor_flag' = [l \in Labels |-> IF l \in ClearedVars /\ phase = "all"
                                     THEN "waiting" ELSE flcor_flag[l]]
  /\ ret' = [op |-> "ClearBoundary", status |-> TaskStatus(TRUE)]
  /\ UNCHANGED <<regVars, copyVars, allocVars, cacheVars, mpiStatus, var_cc, persistent,
                 local_neighbor_allocated, neighbor_alloc, started, polledOK>>

\* the transport: the buffer a neighbor sent for a ghost-filled variable arrives
Deliver(l, n) ==
  /\ l \in Range(varVector) /\ IsSet(l, "FillGhost")
  /\ bd_flag[l][n] = "waiting"
  /\ bd_flag' = [bd_flag EXCEPT ![l][n] = "arrived"]
  /\ ret' = [op |-> "Deliver"]
  /\ UNCHANGED <<regVars, copyVars, allocVars, cacheVars, mpiStatus, var_cc, recv_posted,
                 persistent, flcor_flag, local_neighbor_allocated, neighbor_alloc,
                 started, polledOK>>

\* the transport: the flux corrections of the neighbors of a variable arrive
DeliverFlux(l) ==
  /\ l \in Range(varVector) /\ IsSet(l, "FillGhost") /\ IsSet(l, "WithFluxes")
  /\ flcor_flag[l] = "waiting"
  /\ flcor_flag' = [flcor_flag EXCEPT ![l] = "arrived"]
  /\ ret' = [op |-> "DeliverFlux"]
  /\ UNCHANGED <<regVars, copyVars, allocVars, cacheVars, mpiStatus, var_cc, bd_flag,
                 recv_posted, persistent, local_neighbor_allocated, neighbor_alloc,
                 started, polledOK>>

(***************************************************************************)
(* The exchange specification: the boundary tasks in any order, with the   *)
(* transport delivering at any time.                                       *)
(***************************************************************************)
InitExchange ==
  /\ \E enabled \in BOOLEAN, fields \in ExchangeSchemas : Initialize(enabled, fields)
  /\ \E status0 \in BOOLEAN, nalloc \in NeighborAllocStates :
        NewBoundaryState(status0, nalloc)
  /\ nextPack = 0
  /\ lastLookup = EmptyMap
  /\ NoCopy
  /\ ret = [op |-> "Initialize"]

NextExchange ==
  \/ \E phase \in Phases : StartReceiving(phase)
  \/ ReceiveBoundaryBuffers
  \/ \E phase \in Phases : ClearBoundary(phase)
  \/ SetupPersistentMPI
  \/ ResetBoundaryCellVariables
  \/ SendFluxCorrection
  \/ ReceiveFluxCorrection
  \/ \E l \in Labels, n \in Neighbors : Deliver(l, n)
  \/ \E l \in Labels : DeliverFlux(l)

SpecExchange == InitExchange /\ [][NextExchange]_vars

(***************************************************************************)
(* The task specification: the boundary tasks of a container whose packs   *)
(* are looked up in between.                                               *)
(***************************************************************************)
NextTasks ==
  \/ NextExchange
  \/ PackVariablesByName(<<"A", "B">>, << >>, FALSE)

SpecTasks == InitExchange /\ [][NextTasks]_vars

(***************************************************************************)
(* The exchange cycle as the task list drives it: StartReceiving, then     *)
(* ReceiveBoundaryBuffers until it returns complete, then ClearBoundary.   *)
(* The transport delivers at any time, also before StartReceiving.         *)
(***************************************************************************)
InCycle == \E l \in Range(varVector) : recv_posted[l]

CycleStart(phase) == ~InCycle /\ StartReceiving(phase)

CyclePoll == InCycle /\ ReceiveBoundaryBuffers

CycleClear(phase) ==
  /\ InCycle
  /\ ret.op = "ReceiveBoundaryBuffers" /\ ret.status = "complete"
  /\ ClearBoundary(phase)

NextCycle ==
  \/ \E phase \in Phases : CycleStart(phase)
  \/ CyclePoll
  \/ \E phase \in Phases : CycleClear(phase)
  \/ \E l \in Labels, n \in Neighbors : Deliver(l, n)

\* the caller re-invokes the poll, and every buffer awaited arrives
SpecCycle ==
  /\ InitExchange
  /\ [][NextCycle]_vars
  /\ WF_vars(CyclePoll)
  /\ \A l \in Labels, n \in Neighbors : WF_vars(Deliver(l, n))

(***************************************************************************)
(* The sparse exchange specification: the exchange tasks interleaved with  *)
(* sparse allocation on the block and on its neighbor blocks.              *)
(***************************************************************************)
\* a neighbor block on this rank allocates or deallocates its sparse variable l
NeighborAllocate(n, l) ==
  /\ n \in LocalNeighbors
  /\ l \in varMap /\ sparse_enabled /\ IsSparse(l)
  /\ neighbor_alloc' = [neighbor_alloc EXCEPT ![n][l] = ~neighbor_alloc[n][l]]
  /\ ret' = [op |-> "NeighborAllocate"]
  /\ UNCHANGED <<regVars, copyVars, allocVars, cacheVars, mpiStatus, var_cc, bd_flag,
                 recv_posted, persistent, flcor_flag, local_neighbor_allocated,
                 started, polledOK>>

\* a call of SetLocalNeighborAllocated by itself
SyncLocalNeighborAllocation ==
  /\ local_neighbor_allocated' = SetLocalNeighborAllocated
  /\ ret' = [op |-> "SetLocalNeighborAllocated",
             changed |-> local_neighbor_allocated # SetLocalNeighborAllocated]
  /\ UNCHANGED <<regVars, copyVars, allocVars, cacheVars, mpiStatus, var_cc, bd_flag,
                 recv_posted, persistent, flcor_flag, neighbor_alloc, started,
                 polledOK>>

\* a ClearBoundary of the running cycle, complete or not
CycleAbandon(phase) == InCycle /\ ClearBoundary(phase)

NextSparse ==
  \/ \E l \in Labels : Allocate(l)
  \/ \E l \in Labels : Deallocate(l)
  \/ \E n \in Neighbors, l \in Labels : NeighborAllocate(n, l)
  \/ SyncLocalNeighborAllocation
  \/ \E phase \in Phases : CycleStart(phase)
  \/ CyclePoll
  \/ \E phase \in Phases : CycleAbandon(phase)
  \/ ResetBoundaryCellVariables
  \/ \E l \in Labels, n \in Neighbors : Deliver(l, n)

\* the container with one dense and one sparse ghost-filled variable
InitSparse ==
  /\ \E enabled \in BOOLEAN : Initialize(enabled, ExchangeFields)
  /\ \E nalloc \in NeighborAllocStates : NewBoundaryState(FALSE, nalloc)
  /\ nextPack = 0
  /\ lastLookup = EmptyMap
  /\ NoCopy
  /\ ret = [op |-> "Initialize"]

SpecSparse == InitSparse /\ [][NextSparse]_vars

(***************************************************************************)
(* Initialize as a call: a container, newly constructed or in use, is      *)
(* initialized, and initialized again, with schemas of every placement.    *)
(***************************************************************************)
\* declarations of variables that are not cell-centered
FaceField == [base_name |-> "F", sparse_id |-> InvalidSparseID,
              flags |-> {"OneCopy"}, where |-> "Face"]
NodeField == [base_name |-> "N", sparse_id |-> InvalidSparseID,
              flags |-> {}, where |-> "Node"]
EdgeField == [base_name |-> "E", sparse_id |-> InvalidSparseID,
              flags |-> {"OneCopy"}, where |-> "Edge"]
ManyCopyFace == [base_name |-> "G", sparse_id |-> InvalidSparseID,
                 flags |-> {}, where |-> "Face"]
GhostFace == [base_name |-> "H", sparse_id |-> InvalidSparseID,
              flags |-> {"OneCopy", "FillGhost"}, where |-> "Face"]

\* the schemas Initialize is called with
InitSchemas ==
  { AllFields, FewFields,
    << AllFields[1], FaceField, AllFields[2] >>,
    << AllFields[1], NodeField, AllFields[4] >>,
    << NodeField, AllFields[1] >>,
    << AllFields[1], AllFields[2], EdgeField >>,
    << FaceField, ManyCopyFace, AllFields[1] >>,
    << AllFields[4], GhostFace, FaceField >> }

\* the variables of a container whose vectors and maps have been cleared
ClearedRegistry ==
  [varVector |-> << >>, faceVector |-> << >>,
   is_allocated |-> [l \in Labels |-> FALSE], data |-> [l \in Labels |-> 0],
   nextData |-> 0, failed |-> "none", message |-> ""]

\* a clear that leaves the map as it is
Clear_Kept(m) == m

\* std::map::clear of a pack cache
Clear(m) == EmptyMap

\* AddField ends with an exception ("throw") or ends the process ("exit")
Fatal(acc, how, message) == [acc EXCEPT !.failed = how, !.message = message]

\* Add(pfv)
AddFace(acc, q) == [acc EXCEPT !.faceVector = Append(@, q.base_name)]

\* Add(pvar)
AddCell(acc, l) == [acc EXCEPT !.varVector = Append(@, l)]

\* pvar->Allocate(pmy_block) of a newly made variable
AllocateNew(acc, l) ==
  [acc EXCEPT !.is_allocated[l] = TRUE, !.data[l] = acc.nextData + 1,
              !.nextData = acc.nextData + 1]

\* a test that finds the ghost-fill flag on no face field
GhostsOnFace_Never(q) == FALSE

\* metadata.IsSet(Metadata::FillGhost) of a face field
GhostsOnFace(q) == "FillGhost" \in q.flags

\* AddField(base_name, metadata, sparse_id) for the declaration q
AddField(acc, q, enabled) ==
  IF q.where = "Node"
  THEN Fatal(acc, "throw", "Node variables are not implemented yet")
  ELSE IF q.where = "Edge"
  THEN Fatal(acc, "exit", "Accessing unliving edge array in stage")
  ELSE IF q.where = "Face"
  THEN IF ~("OneCopy" \in q.flags)
       THEN Fatal(acc, "exit", "Currently one one-copy face fields are supported")
       ELSE IF GhostsOnFace(q)
       THEN Fatal(acc, "exit", "Ghost zones not yet supported for face fields")
       ELSE AddFace(acc, q)
  ELSE LET l == FieldLabel(q)
           pvar == AddCell(acc, l)
       IN IF AllocatedOnAdd(enabled, l) THEN AllocateNew(pvar, l) ELSE pvar

\* the loop of Initialize over AllFields(): it ends with the first field that
\* AddField does not return from
RECURSIVE AddFields(_, _, _)
AddFields(acc, fields, enabled) ==
  IF fields = << >> \/ acc.failed # "none" THEN acc
  ELSE AddFields(AddField(acc, Head(fields), enabled), Tail(fields), enabled)

\* the process has not been ended by std::exit
Running == ~(ret.op = "Initialize" /\ ret.failed = "exit")

\* a call of Initialize(resolved_packages, pmb) on the container as it is; the
\* variables it held are released, and the storage blocks and the packs of the
\* new contents are numbered from one again
InitializeCall(fields) ==
  LET r == AddFields(ClearedRegistry, fields, sparse_enabled) IN
  /\ resolved_packages' = fields
  /\ varVector' = r.varVector
  /\ varMap' = Range(r.varVector)
  /\ faceVector' = r.faceVector
  /\ faceMap' = Range(r.faceVector)
  /\ is_allocated' = r.is_allocated
  /\ data' = r.data
  /\ nextData' = r.nextData
  /\ varPackMap' = Clear(varPackMap)
  /\ coarseVarPackMap' = Clear(coarseVarPackMap)
  /\ varFluxPackMap' = Clear(varFluxPackMap)
  /\ nextPack' = 0
  /\ lastLookup' = EmptyMap
  /\ mpiStatus' = [l \in Labels |-> FALSE]
  /\ var_cc' = r.data
  /\ bd_flag' = [l \in Labels |-> [n \in Neighbors |-> "waiting"]]
  /\ recv_posted' = [l \in Labels |-> FALSE]
  /\ persistent' = [l \in Labels |-> FALSE]
  /\ flcor_flag' = [l \in Labels |-> "waiting"]
  /\ local_neighbor_allocated' = [l \in Labels |-> [n \in Neighbors |-> FALSE]]
  /\ started' = FALSE
  /\ polledOK' = {}
  /\ ret' = [op |-> "Initialize", schema |-> fields, failed |-> r.failed,
             message |-> r.message,
             prior |-> [schema |-> resolved_packages,
                        vars |-> Len(varVector) + Len(faceVector),
                        fine |-> DOMAIN varPackMap # {},
                        coarse |-> DOMAIN coarseVarPackMap # {},
                        flux |-> DOMAIN varFluxPackMap # {}]]
  /\ UNCHANGED <<sparse_enabled, neighbor_alloc, copyVars>>

\* a newly constructed container: nothing declared, nothing cached
InitNew ==
  /\ sparse_enabled \in BOOLEAN
  /\ resolved_packages = << >>
  /\ varVector = << >>
  /\ varMap = {}
  /\ faceVector = << >>
  /\ faceMap = {}
  /\ is_allocated = [l \in Labels |-> FALSE]
  /\ data = [l \in Labels |-> 0]
  /\ nextData = 0
  /\ varPackMap = EmptyMap
  /\ coarseVarPackMap = EmptyMap
  /\ varFluxPackMap = EmptyMap
  /\ NewBoundaryState(FALSE, [n \in LocalNeighbors |-> [l \in Labels |-> FALSE]])
  /\ nextPack = 0
  /\ lastLookup = EmptyMap
  /\ NoCopy
  /\ ret = [op |-> "MeshBlockData"]

NextInit ==
  /\ Running
  /\ \/ \E fields \in InitSchemas : InitializeCall(fields)
     \/ \E l \in Labels : Allocate(l)
     \/ \E l \in Labels : Deallocate(l)
     \/ \E coarse \in BOOLEAN : PackVariablesByName(<<"A", "B">>, << >>, coarse)
     \/ PackVariablesAndFluxesByName(<<"A">>, <<"A">>, << >>)
     \/ SelectByName(<<"C", "B">>, << >>)
     \/ SelectByFlag(<<"FillGhost">>, TRUE, << >>)

SpecInit == InitNew /\ [][NextInit]_vars

(***************************************************************************)
(* Properties of the pack caches.                                          *)
(***************************************************************************)
\* the allocation status of the variables of a key, read from the variables
LiveAlloc(key) == [i \in DOMAIN key |-> is_allocated[key[i]]]

CacheName(coarse) == IF coarse THEN "coarse" ELSE "fine"

CacheMap(coarse) == IF coarse THEN coarseVarPackMap ELSE varPackMap

EntryCount ==
  Cardinality(DOMAIN varPackMap) + Cardinality(DOMAIN coarseVarPackMap)
  + Cardinality(DOMAIN varFluxPackMap)

\* C1: a PackListedVariables call that finds the selected variables' allocation
\* states as the previous call for the same key and coarse flag left them returns
\* the pack instance of that call, builds and erases nothing and leaves all cache
\* maps as they were.
C1_UnchangedAllocationReturnsCachedPack ==
  [][ LET prev == PrevLookup(CacheName(ret'.coarse), ret'.key)
      IN (ret'.op = "PackListedVariables" /\ prev.seen
          /\ prev.alloc = LiveAlloc(ret'.key))
         => /\ ret'.pack.id = prev.pack
            /\ ~ret'.built
            /\ nextPack' = nextPack
            /\ varPackMap' = varPackMap
            /\ coarseVarPackMap' = coarseVarPackMap
            /\ varFluxPackMap' = varFluxPackMap ]_vars

\* a call has been served from the cache although another pack was built since
C1_Witness ==
  /\ ret.op = "PackListedVariables"
  /\ ~ret.built
  /\ ret.pack.id < nextPack
  /\ \E l \in Range(ret.key) : IsSparse(l) /\ is_allocated[l]

C3_ReturnedPackViewsLiveStorage ==
  ret.op = "PackListedVariables" => ret.pack.layout = StorageOf(ret.key)

\* C4: after a lookup the entry of its key stores the live allocation status and
\* the returned pack, and no step changes the allocation status stored with a
\* pack instance: an entry that changes holds a pack built in that step.
C4_EntryMatchesLookup ==
  /\ ret.op = "PackListedVariables"
       => /\ ret.key \in DOMAIN CacheMap(ret.coarse)
          /\ CacheMap(ret.coarse)[ret.key].alloc_status = LiveAlloc(ret.key)
          /\ CacheMap(ret.coarse)[ret.key].pack = ret.pack
  /\ ret.op = "PackListedVariablesAndFluxes"
       => /\ ret.key \in DOMAIN varFluxPackMap
          /\ varFluxPackMap[ret.key].alloc_status = LiveAlloc(ret.key[1])
          /\ varFluxPackMap[ret.key].flux_alloc_status = LiveAlloc(ret.key[2])
          /\ varFluxPackMap[ret.key].pack = ret.pack

NotMutatedInPlace(before, after) ==
  \A k \in DOMAIN before \cap DOMAIN after :
     after[k] # before[k] => after[k].pack.id > nextPack

C4_EntriesReplacedNotMutated ==
  /\ []C4_EntryMatchesLookup
  /\ [][ /\ NotMutatedInPlace(varPackMap, varPackMap')
         /\ NotMutatedInPlace(coarseVarPackMap, coarseVarPackMap')
         /\ NotMutatedInPlace(varFluxPackMap, varFluxPackMap') ]_vars

\* an outdated entry has been replaced in the coarse cache
C4_Witness ==
  /\ ret.op = "PackListedVariables"
  /\ ret.coarse
  /\ ret.built
  /\ ret.pack.id = 2
  /\ DOMAIN coarseVarPackMap = {ret.key}
  /\ coarseVarPackMap[ret.key].alloc_status = LiveAlloc(ret.key)

\* C5: a variables+fluxes lookup whose pair of keys has an entry builds a new
\* pack iff the variables' or the fluxes' allocation status differs from the one
\* stored; when both match it returns the stored pack and changes no entry, and
\* a rebuild changes the entry of that pair of keys only.
C5_FluxPackRebuiltIffEitherDiffers ==
  [][ (ret'.op = "PackListedVariablesAndFluxes" /\ ret'.key \in DOMAIN varFluxPackMap)
      => LET item == varFluxPackMap[ret'.key]
             differs == \/ LiveAlloc(ret'.key[1]) # item.alloc_status
                        \/ LiveAlloc(ret'.key[2]) # item.flux_alloc_status
         IN /\ ret'.built <=> differs
            /\ ~differs => /\ varFluxPackMap' = varFluxPackMap
                           /\ ret'.pack = item.pack
            /\ differs => /\ ret'.pack.id = nextPack + 1
                          /\ varFluxPackMap'[ret'.key].pack = ret'.pack
                          /\ \A k \in DOMAIN varFluxPackMap \ {ret'.key} :
                                /\ k \in DOMAIN varFluxPackMap'
                                /\ varFluxPackMap'[k] = varFluxPackMap[k] ]_vars

\* the pack of (A ; B_0) has been rebuilt: only the fluxes' status can have changed
C5_Witness ==
  /\ ret.op = "PackListedVariablesAndFluxes"
  /\ ret.key = << <<"A">>, <<"B_0">> >>
  /\ ret.built
  /\ ret.pack.id = 2
  /\ DOMAIN varFluxPackMap = {ret.key}
  /\ EntryCount = 1

(***************************************************************************)
(* Properties of the boundary exchange.                                    *)
(***************************************************************************)
\* the ghost-filled variables of the container, read from the declarations
GhostFilled == {l \in Range(varVector) : "FillGhost" \in FieldOf(l).flags}

\* the variables with fluxes that are ghost-filled, read from the declarations
FluxAndGhost == {l \in GhostFilled : "WithFluxes" \in FieldOf(l).flags}

\* C6: once StartReceiving has been called, a ReceiveBoundaryBuffers call returns
\* complete only if the poll of every ghost-filled variable has succeeded since
\* the last StartReceiving, and returns incomplete if a poll of the call failed.
C6_CompleteOnlyAfterEveryPoll ==
  (started /\ ret.op = "ReceiveBoundaryBuffers")
    => /\ ret.status = "complete" => GhostFilled \subseteq polledOK
       /\ ret.failed # {} => ret.status = "incomplete"

\* a call returns complete having polled B_0 only: A's poll succeeded in an
\* earlier call of the cycle
C6_Witness ==
  /\ started
  /\ ret.op = "ReceiveBoundaryBuffers"
  /\ ret.status = "complete"
  /\ ret.polled = {"B_0"}
  /\ GhostFilled = {"A", "B_0"}

\* C7: after StartReceiving the completion flag of a ghost-filled variable is
\* false as long as no poll for it has succeeded, and a completion flag turns
\* true only in a ReceiveBoundaryBuffers call that polls the variable with success.
C7_FlagFalseUntilPollSucceeds ==
  /\ [](started => \A l \in GhostFilled : l \notin polledOK => ~mpiStatus[l])
  /\ [][ \A l \in Labels :
           (~mpiStatus[l] /\ mpiStatus'[l])
             => /\ ret'.op = "ReceiveBoundaryBuffers"
                /\ l \in ret'.polled \ ret'.failed
                /\ \A n \in Neighbors : bd_flag[l][n] = "arrived" ]_vars

\* in a cycle one variable is complete and the other is not, and another task
\* has run since
C7_Witness ==
  /\ started
  /\ ret.op = "SendFluxCorrection"
  /\ "A" \in GhostFilled /\ mpiStatus["A"] /\ "A" \in polledOK
  /\ "B_0" \in GhostFilled /\ ~mpiStatus["B_0"]

\* the calls StartReceiving makes for the ghost-filled variable l start at log[i]
CallsFor(log, i, l) ==
  /\ i + 2 <= Len(log)
  /\ log[i] = Call("resetBoundary", l)
  /\ log[i + 1] = Call("StartReceiving", l)
  /\ log[i + 2] = Call("mpiStatus = false", l)

\* C8: StartReceiving calls SetLocalNeighborAllocated first and once, then for
\* every ghost-filled variable, and for no other, resets the boundary, posts the
\* receive and sets the completion flag to false; it returns complete, whatever
\* the state it is called in.
C8_StartReceivingPosts ==
  /\ [](ret.op = "StartReceiving"
         => /\ ret.status = "complete"
            /\ Len(ret.log) = 1 + 3 * Cardinality(GhostFilled)
            /\ ret.log[1] = Call("SetLocalNeighborAllocated", "")
            /\ \A i \in 2 .. Len(ret.log) :
                  /\ ret.log[i].call # "SetLocalNeighborAllocated"
                  /\ ret.log[i].var \in GhostFilled
            /\ \A l \in GhostFilled :
                  /\ \E i \in 2 .. Len(ret.log) : CallsFor(ret.log, i, l)
                  /\ recv_posted[l] /\ ~mpiStatus[l] /\ var_cc[l] = data[l]
                  /\ sparse_enabled =>
                       \A n \in LocalNeighbors :
                          local_neighbor_allocated[l][n] = neighbor_alloc[n][l])
  /\ [][ ret'.op = "StartReceiving"
           => \A l \in Labels \ GhostFilled :
                 /\ mpiStatus'[l] = mpiStatus[l]
                 /\ recv_posted'[l] = recv_posted[l]
                 /\ var_cc'[l] = var_cc[l]
                 /\ local_neighbor_allocated'[l] = local_neighbor_allocated[l] ]_vars

\* StartReceiving has been called while the previous cycle was incomplete
C8_Witness ==
  /\ ret.op = "StartReceiving"
  /\ ret.pending
  /\ Cardinality(GhostFilled) = 2
  /\ \E l \in Labels \ GhostFilled : l \in Range(varVector)

\* C9: in a cycle whose buffers arrive and whose caller keeps polling, a
\* ReceiveBoundaryBuffers call eventually returns complete; every call returns
\* complete or incomplete, and incomplete exactly while a ghost-filled variable
\* is not complete.
CycleComplete == ret.op = "ReceiveBoundaryBuffers" /\ ret.status = "complete"

C9_PollingCompletes ==
  /\ InCycle ~> CycleComplete
  /\ [](ret.op = "ReceiveBoundaryBuffers"
          => /\ ret.status \in {"complete", "incomplete"}
             /\ ret.status = "incomplete" <=> \E l \in GhostFilled : ~mpiStatus[l])

\* a cycle has completed after a call that returned incomplete for one variable
C9_Witness ==
  /\ InCycle
  /\ CycleComplete
  /\ ret.polled # {} /\ ret.polled # GhostFilled

\* C10: SendFluxCorrection returns complete and posts a send for exactly the
\* variables that are WithFluxes and FillGhost; ReceiveFluxCorrection returns
\* complete iff the correction of every such variable has arrived when it is
\* called, and incomplete otherwise.
C10_FluxCorrection ==
  /\ [](ret.op = "SendFluxCorrection"
          => ret.status = "complete" /\ ret.sent = FluxAndGhost)
  /\ [][ ret'.op = "ReceiveFluxCorrection"
           => /\ ret'.status \in {"complete", "incomplete"}
              /\ ret'.status = "complete"
                   <=> \A l \in FluxAndGhost : flcor_flag[l] # "waiting" ]_vars

\* ReceiveFluxCorrection has returned complete for the arrived correction of A
\* while a variable with fluxes that is not ghost-filled is in the container
C10_Witness ==
  /\ ret.op = "ReceiveFluxCorrection"
  /\ ret.status = "complete"
  /\ FluxAndGhost = {"A"}
  /\ flcor_flag["A"] = "completed"
  /\ "C" \in Range(varVector)

\* C11: a ClearBoundary call returns complete in whatever state of the cycle it
\* is made, releases the posted receive and the arrival flags of every
\* ghost-filled variable, leaves the channels of every other variable and all
\* completion flags as they were, and a StartReceiving that follows it begins a
\* cycle in which every ghost-filled variable is posted and pending.
C11_ClearBoundaryAnyState ==
  [][ /\ ret'.op = "ClearBoundary"
           => /\ ret'.status = "complete"
              /\ \A l \in GhostFilled :
                    /\ ~recv_posted'[l]
                    /\ \A n \in Neighbors : bd_flag'[l][n] = "waiting"
              /\ \A l \in Labels \ GhostFilled :
                    /\ recv_posted'[l] = recv_posted[l]
                    /\ bd_flag'[l] = bd_flag[l]
                    /\ flcor_flag'[l] = flcor_flag[l]
              /\ mpiStatus' = mpiStatus
              /\ var_cc' = var_cc
      /\ (ret.op = "ClearBoundary" /\ ret'.op = "StartReceiving")
           => \A l \in GhostFilled :
                 /\ recv_posted'[l] /\ ~mpiStatus'[l]
                 /\ \A n \in Neighbors : bd_flag'[l][n] = "waiting"
                 /\ l \notin polledOK' ]_vars

\* ClearBoundary has been called in a cycle in which one ghost-filled variable
\* is complete and another is posted and not complete
C11_Witness ==
  /\ ret.op = "ClearBoundary"
  /\ started
  /\ \E l \in GhostFilled : mpiStatus[l] /\ l \in polledOK
  /\ \E l \in GhostFilled : ~mpiStatus[l]
  /\ \A l \in GhostFilled : ~recv_posted[l]

UnallocatedOnBothSides(l) ==
  /\ l \in GhostFilled /\ IsSparse(l)
  /\ ~is_allocated[l]
  /\ \A n \in LocalNeighbors : ~neighbor_alloc[n][l]

\* C13: ReceiveBoundaryBuffers polls every variable with the allocation flag the
\* variable has at the call and on the storage it has at the call; the poll of
\* a ghost-filled sparse variable that is unallocated on both sides moves no
\* data and allocates nothing, completes once the neighbors' messages are in,
\* and the call returns complete when every poll it makes succeeds.
C13_UnallocatedExchangeIsNoOp ==
  [][ ret'.op = "ReceiveBoundaryBuffers"
        => /\ \A l \in ret'.polled :
                 /\ ret'.alloc[l] = is_allocated[l]
                 /\ var_cc'[l] = data[l]
           /\ \A l \in ret'.polled :
                 UnallocatedOnBothSides(l)
                   => /\ l \notin ret'.received_data
                      /\ ~is_allocated'[l] /\ data'[l] = 0 /\ var_cc'[l] = 0
                      /\ (\A n \in Neighbors : bd_flag[l][n] = "arrived")
                            => mpiStatus'[l]
           /\ ret'.status \in {"complete", "incomplete"}
           /\ (\A l \in ret'.polled : \A n \in Neighbors : bd_flag[l][n] = "arrived")
                 => ret'.status = "complete" ]_vars

\* a cycle has completed in which B_0, unallocated on both sides, was polled
\* together with the allocated A, after B_0 had been allocated and deallocated
C13_Witness ==
  /\ ret.op = "ReceiveBoundaryBuffers"
  /\ ret.status = "complete"
  /\ started
  /\ ret.polled = {"A", "B_0"}
  /\ UnallocatedOnBothSides("B_0")
  /\ ret.received_data = {"A"}
  /\ nextData > data["A"]

(***************************************************************************)
(* Properties of the selection queries.                                    *)
(***************************************************************************)
\* the name resolves to nothing: neither a variable of the container nor the
\* base name of a sparse pool of its schema
ResolvesToNothing(name) ==
  /\ name \notin varMap
  /\ \A i \in DOMAIN resolved_packages :
        resolved_packages[i].base_name = name
          => resolved_packages[i].sparse_id = InvalidSparseID

\* C14: a GetVariablesByName call with a name that resolves to nothing fails;
\* it returns no list that leaves the name out.
C14_UnresolvedNameFails ==
  ret.op = "GetVariablesByName"
    => ((\E i \in DOMAIN ret.names : ResolvesToNothing(ret.names[i])) => ret.failed)

\* the variables flags, match_all and the sparse-id filter ask for, read from
\* the declarations
Asked(flags, match_all, sparse_ids) ==
  {l \in varMap :
     /\ \/ Len(flags) = 0
        \/ match_all /\ \A i \in DOMAIN flags : flags[i] \in FieldOf(l).flags
        \/ ~match_all /\ \E i \in DOMAIN flags : flags[i] \in FieldOf(l).flags
     /\ (FieldOf(l).sparse_id # InvalidSparseID /\ Len(sparse_ids) > 0)
          => \E i \in DOMAIN sparse_ids : sparse_ids[i] = FieldOf(l).sparse_id}

\* the list holds exactly the variables of S, each once
ListsExactly(labels, S) ==
  /\ Range(labels) = S
  /\ Len(labels) = Cardinality(S)

\* C15: a GetVariablesByFlag call returns exactly the cell variables of the
\* container that pass the sparse-id filter and for which flags is empty, or
\* match_all holds and all flags are set, or match_all does not hold and a flag
\* is set; a pack retrieved by flags is the pack of the variables that have all
\* of the flags.
C15_SelectByFlagsExact ==
  /\ [](ret.op = "GetVariablesByFlag"
          => ListsExactly(ret.list.labels,
                          Asked(ret.flags, ret.match_all, ret.sparse_ids)))
  /\ [](ret.op = "PackListedVariables"
          => \E flags \in PackFlagLists :
                ListsExactly(ret.key, Asked(flags, TRUE, << >>)))

\* a query for any of two flags has returned variables that have one of them
\* only, and left a sparse variable out by the filter
C15_Witness ==
  /\ ret.op = "GetVariablesByFlag"
  /\ ~ret.match_all
  /\ ret.flags = <<"FillGhost", "WithFluxes">>
  /\ ret.sparse_ids = <<0>>
  /\ Range(ret.list.labels) = {"A", "B_0", "C"}

\* C16: the list a GetVariablesByFlag call returns is in ascending order of the
\* labels, whatever the order the variables were added in, so the list is fixed
\* by the registry, the flags, the match mode and the filter; two calls in a row
\* with the same arguments return the same list, and two by-flag pack lookups
\* in a row of the same selection get the same pack.
C16_SelectByFlagsStableOrder ==
  /\ [](ret.op = "GetVariablesByFlag"
          => \A i, j \in DOMAIN ret.list.labels :
                i < j => LabelLess(ret.list.labels[i], ret.list.labels[j]))
  /\ [][ (/\ ret.op = "GetVariablesByFlag" /\ ret'.op = "GetVariablesByFlag"
           /\ ret'.flags = ret.flags /\ ret'.match_all = ret.match_all
           /\ ret'.sparse_ids = ret.sparse_ids)
          => ret'.list = ret.list ]_vars
  /\ [][ (/\ ret.op = "PackListedVariables" /\ ret'.op = "PackListedVariables"
           /\ Range(ret'.key) = Range(ret.key) /\ ret'.coarse = ret.coarse)
          => ret'.key = ret.key /\ ret'.pack = ret.pack /\ ~ret'.built ]_vars

\* a query has returned several variables of a container whose variables were
\* not added in the order of their labels
C16_Witness ==
  /\ ret.op = "GetVariablesByFlag"
  /\ Len(ret.list.labels) >= 3
  /\ \E i, j \in DOMAIN varVector : i < j /\ LabelLess(varVector[j], varVector[i])

\* the sparse ids of the pool of a base name, read from the schema
PoolIds(name) ==
  {resolved_packages[i].sparse_id : i \in
     {j \in DOMAIN resolved_packages :
        /\ resolved_packages[j].base_name = name
        /\ resolved_packages[j].sparse_id # InvalidSparseID}}

\* the entries of a list that are sparse variables of the base name
PoolEntries(labels, name) ==
  SelectSeq(labels, LAMBDA l : FieldOf(l).base_name = name /\ IsSparse(l))

\* C17: a GetVariablesByName call returns, for a requested name that is a sparse
\* base name and no variable label, one entry for each sparse id of that base
\* name's pool that passes the sparse-id filter (every id, when the filter is
\* empty), in ascending order of the ids, and nothing else for that name.
C17_SparseExpansion ==
  ret.op = "GetVariablesByName"
    => \A k \in DOMAIN ret.names :
          LET name == ret.names[k]
              sub == PoolEntries(ret.list.labels, name)
              ids == {id \in PoolIds(name) :
                        Len(ret.sparse_ids) = 0
                        \/ \E i \in DOMAIN ret.sparse_ids : ret.sparse_ids[i] = id}
          IN (name \notin varMap /\ PoolIds(name) # {})
               => /\ ListsExactly(sub, {MakeVarLabel(name, id) : id \in ids})
                  /\ \A i, j \in DOMAIN sub :
                        i < j => FieldOf(sub[i]).sparse_id < FieldOf(sub[j]).sparse_id
                  /\ Len(ret.names) = 1 => ret.list.labels = sub

\* the base name B has been expanded to both members of its pool, in a
\* container that added B_1 before B_0
C17_Witness ==
  /\ ret.op = "GetVariablesByName"
  /\ ret.names = <<"B">>
  /\ ret.sparse_ids = << >>
  /\ ret.list.labels = <<"B_0", "B_1">>
  /\ varVector = AddedLabels(ShuffledFields)

\* the first position of the request that names the variable or its base name
RequestIndex(names, l) ==
  CHOOSE k \in DOMAIN names :
    /\ names[k] = l \/ (IsSparse(l) /\ names[k] = FieldOf(l).base_name)
    /\ \A m \in 1 .. k - 1 :
          ~(names[m] = l \/ (IsSparse(l) /\ names[m] = FieldOf(l).base_name))

\* C18: the list a GetVariablesByName call returns holds requested variables
\* only, in the order of the request, and with it one allocation status per
\* listed variable, the variable's IsAllocated at the call; a pack lookup by
\* name whose list carries another allocation status than the previous lookup
\* of the same names returns a pack built in the call, and one that carries the
\* same status returns the pack of the previous lookup.
C18_ListOrderAndFingerprint ==
  /\ [](ret.op = "GetVariablesByName"
          => LET labels == ret.list.labels
                 status == ret.list.alloc_status
             IN /\ DOMAIN status = DOMAIN labels
                /\ \A i \in DOMAIN labels :
                      /\ status[i] = is_allocated[labels[i]]
                      /\ labels[i] \in varMap
                      /\ \E k \in DOMAIN ret.names :
                            \/ ret.names[k] = labels[i]
                            \/ IsSparse(labels[i])
                               /\ ret.names[k] = FieldOf(labels[i]).base_name
                /\ \A i, j \in DOMAIN labels :
                      i < j => RequestIndex(ret.names, labels[i])
                                 <= RequestIndex(ret.names, labels[j])
                /\ (\A k \in DOMAIN ret.names : ret.names[k] \in varMap)
                     /\ Len(ret.sparse_ids) = 0
                     => labels = ret.names)
  /\ [][ LET prev == PrevLookup("fine", ret'.key)
         IN (ret'.op = "PackListedVariables" /\ prev.seen)
              => /\ prev.alloc # LiveAlloc(ret'.key)
                      => ret'.built /\ ret'.pack.id = nextPack + 1
                 /\ prev.alloc = LiveAlloc(ret'.key)
                      => ~ret'.built /\ ret'.pack.id = prev.pack
                 /\ lastLookup'[<<"fine", ret'.key>>].alloc = LiveAlloc(ret'.key) ]_vars

\* the second pack of [A, B_0] has been built: B_0 was unallocated at the first
\* lookup and both variables are allocated now
C18_Witness ==
  /\ ret.op = "PackListedVariables"
  /\ ret.key = <<"A", "B_0">>
  /\ ret.built
  /\ ret.pack.id = 2
  /\ LiveAlloc(ret.key) = <<TRUE, TRUE>>
  /\ PrevLookup("fine", ret.key).alloc = <<TRUE, TRUE>>

(***************************************************************************)
(* Properties of CopyFrom.                                                 *)
(***************************************************************************)
\* the variables of this container a CopyFrom by name is asked for: those the
\* names label and the pool members of the names that are sparse base names,
\* less those the flag and sparse-id filters drop
AskedByName(names, flags, sparse_ids) ==
  {l \in varMap :
     /\ \E k \in DOMAIN names :
           \/ names[k] = l
           \/ /\ names[k] \notin varMap
              /\ FieldOf(l).sparse_id # InvalidSparseID
              /\ FieldOf(l).base_name = names[k]
     /\ Len(flags) > 0 => \E i \in DOMAIN flags : flags[i] \in FieldOf(l).flags
     /\ (FieldOf(l).sparse_id # InvalidSparseID /\ Len(sparse_ids) > 0)
          => \E i \in DOMAIN sparse_ids : sparse_ids[i] = FieldOf(l).sparse_id}

\* C20: a CopyFrom by name fails with 'not found' for a name that is neither a
\* variable of the source nor a sparse base name, and fails in no other way;
\* when every name resolves, the second container holds the source's variable
\* for every requested label and every pool member of a requested base name
\* that passes the filters.
C20_CopyByNameExpandsPools ==
  (copied.done /\ Len(copied.names) > 0)
    => /\ copied.failed \in {NoException, "not found"}
       /\ copied.failed = "not found"
            <=> \E k \in DOMAIN copied.names : ResolvesToNothing(copied.names[k])
       /\ copied.failed = NoException
            => DOMAIN dst.vars
                 = AskedByName(copied.names, copied.flags, copied.sparse_ids)

\* the variable l is to be shared by the second container: the copy was
\* shallow, or the variable is declared OneCopy
ToBeShared(l) == copied.shallow_copy \/ "OneCopy" \in FieldOf(l).flags

\* C19: after a CopyFrom, every variable of the second container that is
\* OneCopy, or any variable when the copy was shallow, is the source's object:
\* both containers see the same allocation state and storage at all times,
\* whichever of them allocates or deallocates it; every other variable is a
\* duplicate with storage of its own, and a change of the source's variable or
\* of the duplicate does not change the other.
C19_CopySharing ==
  /\ [](copied.done
          => \A l \in DOMAIN dst.vars :
                IF ToBeShared(l)
                THEN /\ dst.vars[l].shared
                     /\ VarIsAllocated(dst.vars[l], l) = is_allocated[l]
                     /\ VarData(dst.vars[l], l) = data[l]
                ELSE /\ ~dst.vars[l].shared
                     /\ VarIsAllocated(dst.vars[l], l)
                          => VarData(dst.vars[l], l) # data[l])
  /\ [][ copied.done
           => \A l \in DOMAIN dst.vars :
                 ~ToBeShared(l)
                   => /\ (is_allocated'[l] # is_allocated[l] \/ data'[l] # data[l])
                           => dst'.vars[l] = dst.vars[l]
                      /\ dst'.vars[l] # dst.vars[l]
                           => is_allocated'[l] = is_allocated[l] /\ data'[l] = data[l] ]_vars

\* after a copy that was not shallow the duplicate of B_0 has been allocated
\* through the second container while the source's B_0 is not, and the OneCopy
\* variable C is shared
C19_Witness ==
  /\ copied.done /\ ~copied.shallow_copy
  /\ ret.op = "DstAllocate"
  /\ "C" \in DOMAIN dst.vars /\ dst.vars["C"].shared
  /\ "B_0" \in DOMAIN dst.vars /\ ~dst.vars["B_0"].shared
  /\ dst.vars["B_0"].is_allocated /\ ~is_allocated["B_0"]

\* C25: after a ResetBoundaryCellVariables call the boundary variable of every
\* ghost-filled variable views the storage the variable has at the call, also
\* when the variable was allocated anew since the boundary variable was last
\* bound; the boundary variables of the other variables and every completion
\* flag are as they were.
C25_ResetRebindsStorage ==
  [][ ret'.op = "ResetBoundaryCellVariables"
        => /\ data' = data
           /\ \A l \in GhostFilled : var_cc'[l] = data[l]
           /\ \A l \in Labels \ GhostFilled : var_cc'[l] = var_cc[l]
           /\ mpiStatus' = mpiStatus ]_vars

\* the call has rebound B_0, whose boundary variable viewed other storage than
\* the storage B_0 was given by its latest allocation
C25_Witness ==
  /\ ret.op = "ResetBoundaryCellVariables"
  /\ ret.rebound = {"B_0"}
  /\ is_allocated["B_0"]
  /\ var_cc["B_0"] = data["B_0"]
  /\ data["B_0"] = nextData
  /\ nextData > Len(varVector)

\* the lookup of `key` finds no entry in packmap, or one with another
\* allocation status than the variables have
MissingOrStale(packmap, key) ==
  key \notin DOMAIN packmap \/ packmap[key].alloc_status # LiveAlloc(key)

\* every entry of packmap but that of `key` is in `after` as it was
OthersKept(packmap, after, key) ==
  \A k \in DOMAIN packmap \ {key} : k \in DOMAIN after /\ after[k] = packmap[k]

C28_KeyIsOrderedLabelList ==
  [][ ret'.op = "PackListedVariables"
        => LET labels == ret'.list.labels
           IN /\ ret'.key = labels
              /\ OthersKept(varPackMap, varPackMap', labels)
              /\ labels \in DOMAIN varPackMap'
              /\ varPackMap'[labels].pack = ret'.pack
              /\ labels \notin DOMAIN varPackMap
                   => /\ ret'.built
                      /\ DOMAIN varPackMap' = DOMAIN varPackMap \cup {labels}
              /\ (labels \in DOMAIN varPackMap
                   /\ varPackMap[labels].alloc_status = ret'.list.alloc_status)
                   => /\ ~ret'.built
                      /\ varPackMap' = varPackMap
                      /\ ret'.pack = varPackMap[labels].pack ]_vars

\* the cache holds an entry for [A, B_0] and another, just built, for [B_0, A]
C28_Witness ==
  /\ ret.op = "PackListedVariables"
  /\ ret.built
  /\ ret.key = <<"B_0", "A">>
  /\ DOMAIN varPackMap = {<<"A", "B_0">>, <<"B_0", "A">>}
  /\ varPackMap[<<"A", "B_0">>].pack.id # varPackMap[<<"B_0", "A">>].pack.id

\* C26: a completion flag goes from true to false in a StartReceiving call
\* only, and only that of a ghost-filled variable, and from false to true only
\* in a ReceiveBoundaryBuffers call that polls the variable with success; a
\* ReceiveBoundaryBuffers call polls no variable whose flag is true and leaves
\* that flag true; ClearBoundary, SetupPersistentMPI, SendFluxCorrection,
\* ReceiveFluxCorrection, ResetBoundaryCellVariables and the pack lookups leave
\* every completion flag as it was.
C26_CompletionFlagFrame ==
  [][ /\ \A l \in Labels :
            /\ (mpiStatus[l] /\ ~mpiStatus'[l])
                 => ret'.op = "StartReceiving" /\ l \in GhostFilled
            /\ (~mpiStatus[l] /\ mpiStatus'[l])
                 => /\ ret'.op = "ReceiveBoundaryBuffers"
                    /\ l \in ret'.polled \ ret'.failed
            /\ (ret'.op = "ReceiveBoundaryBuffers" /\ mpiStatus[l])
                 => l \notin ret'.polled /\ mpiStatus'[l]
      /\ ret'.op \in {"ClearBoundary", "SetupPersistentMPI", "SendFluxCorrection",
                      "ReceiveFluxCorrection", "ResetBoundaryCellVariables",
                      "PackListedVariables"}
           => mpiStatus' = mpiStatus ]_vars

\* a ReceiveBoundaryBuffers call has returned incomplete after a ClearBoundary
\* took the arrived buffers away: it polled B_0 only, without success, and A,
\* complete before the call, is complete still though its buffers are gone
C26_Witness ==
  /\ ret.op = "ReceiveBoundaryBuffers"
  /\ ret.polled = {"B_0"} /\ ret.failed = {"B_0"}
  /\ mpiStatus["A"] /\ "A" \in polledOK
  /\ \A n \in Neighbors : bd_flag["A"][n] = "waiting"
  /\ nextPack > 0

(***************************************************************************)
(* Properties of Initialize and AddField.                                  *)
(***************************************************************************)
IsCell(q) == q.where = "Cell"
IsFace(q) == q.where = "Face"

\* the labels of the cell-centered and of the face fields of a schema, in order
CellLabels(fields) ==
  LET cells == SelectSeq(fields, IsCell)
  IN [i \in DOMAIN cells |-> FieldLabel(cells[i])]
FaceLabels(fields) ==
  LET faces == SelectSeq(fields, IsFace)
  IN [i \in DOMAIN faces |-> faces[i].base_name]

\* the requests AddField is to reject
Unsupported(q) ==
  \/ q.where \in {"Node", "Edge"}
  \/ q.where = "Face" /\ ("OneCopy" \notin q.flags \/ "FillGhost" \in q.flags)

\* the place of the first unsupported field of a schema, 0 when it has none
FirstUnsupported(fields) ==
  IF \E i \in DOMAIN fields : Unsupported(fields[i])
  THEN CHOOSE i \in DOMAIN fields :
         /\ Unsupported(fields[i])
         /\ \A j \in 1 .. (i - 1) : ~Unsupported(fields[j])
  ELSE 0

CachesEmpty ==
  /\ varPackMap = EmptyMap
  /\ coarseVarPackMap = EmptyMap
  /\ varFluxPackMap = EmptyMap

\* C21: whatever the container held before, a call of Initialize that returns
\* leaves a registry with exactly one variable per field of the schema, cell
\* variables and face variables each in the order of the schema, and three
\* empty pack caches; a second call with the same schema right after the first
\* leaves the registry, the allocation state and the caches as the first did.
C21_InitializeIdempotent ==
  [][ (ret'.op = "Initialize" /\ ret'.failed = "none")
        => /\ varVector' = CellLabels(ret'.schema)
           /\ varMap' = Range(CellLabels(ret'.schema))
           /\ faceVector' = FaceLabels(ret'.schema)
           /\ faceMap' = Range(FaceLabels(ret'.schema))
           /\ Len(varVector') + Len(faceVector') = Len(ret'.schema)
           /\ Cardinality(varMap') = Len(varVector')
           /\ Cardinality(faceMap') = Len(faceVector')
           /\ CachesEmpty'
           /\ (ret.op = "Initialize" /\ ret.schema = ret'.schema)
                => /\ UNCHANGED <<regVars, allocVars>>
                   /\ UNCHANGED <<varPackMap, coarseVarPackMap, varFluxPackMap>> ]_vars

\* Initialize has returned on a container that held the variables of another
\* schema and packs in its fine and in its flux cache
C21_Witness ==
  /\ ret.op = "Initialize" /\ ret.failed = "none"
  /\ ret.prior.fine /\ ret.prior.flux
  /\ ret.prior.vars > 0
  /\ ret.prior.schema # ret.schema
  /\ faceVector # << >>
  /\ varVector # << >>

\* C22: when Initialize ends with the exception of a rejected field, no
\* variable and no face variable is left in the vectors and maps and the pack
\* caches are empty.
C22_FailedInitializeLeavesNothing ==
  (ret.op = "Initialize" /\ ret.failed = "throw")
    => /\ varVector = << >> /\ varMap = {}
       /\ faceVector = << >> /\ faceMap = {}
       /\ CachesEmpty

\* C23: Initialize's loop ends at the first field that is node- or edge-placed
\* or a face field without OneCopy or with FillGhost: AddField does not return
\* from it, by an exception or by ending the process, with a message, and adds
\* nothing for it; every field before it, and every field of a schema without
\* such a field, has added exactly one variable.
C23_AddFieldRejectsUnsupported ==
  ret.op = "Initialize"
    => LET k == FirstUnsupported(ret.schema)
           before == SubSeq(ret.schema, 1, IF k = 0 THEN Len(ret.schema) ELSE k - 1)
       IN /\ (k = 0) <=> (ret.failed = "none")
          /\ (k # 0) => ret.failed \in {"throw", "exit"} /\ ret.message # ""
          /\ varVector = CellLabels(before)
          /\ faceVector = FaceLabels(before)
          /\ Len(varVector) + Len(faceVector) = Len(before)
          /\ varMap = Range(varVector) /\ faceMap = Range(faceVector)

\* Initialize ended the process at a face field with the FillGhost flag: the
\* cell field declared before it is registered, no face variable is
C23_Witness ==
  /\ ret.op = "Initialize" /\ ret.failed = "exit"
  /\ ret.schema = << AllFields[4], GhostFace, FaceField >>
  /\ varVector = << "C" >>
  /\ faceVector = << >>

\* C24: right after Initialize a cell variable is allocated exactly when sparse
\* support is disabled or the variable is dense; a dense cell variable is
\* allocated at every time; with sparse support disabled the allocation status
\* of every list a selection returns is all true.
C24_AllocatedOnAdd ==
  /\ ret.op = "Initialize"
       => \A l \in varMap : is_allocated[l] <=> (~sparse_enabled \/ ~IsSparse(l))
  /\ \A l \in varMap : ~IsSparse(l) => is_allocated[l] /\ data[l] # 0
  /\ (~sparse_enabled /\ ret.op \in {"GetVariablesByName", "GetVariablesByFlag",
                                     "PackListedVariables"})
       => \A i \in DOMAIN ret.list.alloc_status : ret.list.alloc_status[i]

\* with sparse support disabled, a selection by name has listed the dense C and
\* both variables of the sparse pool B
C24_Witness ==
  /\ ~sparse_enabled
  /\ ret.op = "GetVariablesByName"
  /\ ret.list.labels = << "C", "B_0", "B_1" >>
  /\ ret.list.alloc_status = << TRUE, TRUE, TRUE >>
  /\ varVector = AddedLabels(AllFields)

====
